---- MODULE Spec2Model ----
(***************************************************************************)
(* fitrkr-cli: the repository layer (InsertNamesToDB, GetOrInsert*,        *)
(* InsertExercises), the file parsers and the bubbletea menu machine.      *)
(*                                                                         *)
(* Strings are sequences of one-character strings, so that TrimSpace,      *)
(* ToLower, Ext, Split and the comparisons of the code are computed and    *)
(* not assumed.  A table is a set of rows (records); a junction table is   *)
(* a bag of id pairs, so that a duplicate pair is representable.           *)
(***************************************************************************)
EXTENDS Bags, FiniteSets, Integers, Sequences, TLC

\* ------------------------------------------------------------------ bounds
MaxNames == 3      \* longest name list handed to InsertNamesToDB
MaxRows == 2       \* longest batch handed to InsertExercises
MaxCalls == 2      \* calls into the repository layer per behaviour of SpecDB
MaxUploads == 1    \* files uploaded through the menu per behaviour of Spec
MaxLen == 4        \* longest list column handed to SplitAndTrim
MaxRecords == 3    \* most records of a name-list CSV file handed to ParseCSV

\* ----------------------------------------------------------------- strings
sA == <<"a">>
sB == <<"b">>
sX == <<"x">>
sY == <<"y">>
sD1 == <<"d", "1">>
sD2 == <<"d", "2">>
sNone == <<"N", "o", "n", "e">>
sNoneLower == <<"n", "o", "n", "e">>
sBlank == <<" ">>
sEmpty == <<>>

\* unicode.ToLower on the characters the model uses
LowerChar(c) ==
  CASE c = "A" -> "a" [] c = "B" -> "b" [] c = "C" -> "c" [] c = "E" -> "e"
    [] c = "M" -> "m" [] c = "N" -> "n" [] c = "O" -> "o" [] c = "S" -> "s"
    [] c = "V" -> "v" [] c = "X" -> "x" [] c = "Y" -> "y" [] c = "L" -> "l"
    [] OTHER -> c

ToLower(s) == [i \in 1..Len(s) |-> LowerChar(s[i])]

IsSpace(c) == c \in {" ", "\t", "\n", "\r"}

RECURSIVE TrimLeft(_, _)
TrimLeft(s, cut) ==
  IF s # <<>> /\ Head(s) \in cut THEN TrimLeft(Tail(s), cut) ELSE s

RECURSIVE TrimRight(_, _)
TrimRight(s, cut) ==
  IF s # <<>> /\ s[Len(s)] \in cut THEN TrimRight(SubSeq(s, 1, Len(s) - 1), cut) ELSE s

\* strings.TrimSpace
TrimSpace(s) == TrimRight(TrimLeft(s, {" ", "\t", "\n", "\r"}), {" ", "\t", "\n", "\r"})

\* strings.EqualFold, on the ASCII letters of the model
EqualFold(s, t) == ToLower(s) = ToLower(t)

\* ------------------------------------------------------------------- store
Max(S) == CHOOSE m \in S : \A n \in S : n <= m

DimTables == {"muscle_group", "training_type", "exercise_category", "equipment"}
JunctionTables == {"exercise_equipment", "exercise_training_types", "exercise_muscles"}

EmptyDB ==
  [muscle_group |-> {}, training_type |-> {}, exercise_category |-> {},
   equipment |-> {}, exercise |-> {},
   exercise_equipment |-> EmptyBag, exercise_training_types |-> EmptyBag,
   exercise_muscles |-> EmptyBag]

\* the auto-incrementing surrogate id of the next row of a table
NextId(rows) == IF rows = {} THEN 1 ELSE Max({r.id : r \in rows}) + 1

\* INSERT INTO <table> (name) VALUES ($1) ON CONFLICT (name) DO NOTHING
InsertMuscleGroupQuery == "muscle_group"
InsertTrainingTypeQuery == "training_type"
InsertCategoryQuery == "exercise_category"
InsertEquipmentQuery == "equipment"

\* mutant of ExecInsertName: a plain INSERT, without ON CONFLICT (name) DO NOTHING
ExecInsertNameNoConflict(d, query, name) ==
  [d EXCEPT ![query] = @ \cup {[id |-> NextId(@), name |-> name]}]

\* db.Exec(query, name) of one insert-or-ignore statement, committed at once
ExecInsertName(d, query, name) ==
  IF \E r \in d[query] : r.name = name
  THEN d
  ELSE [d EXCEPT ![query] = @ \cup {[id |-> NextId(@), name |-> name]}]

RECURSIVE NamesLoop(_, _, _, _, _)
NamesLoop(d, query, names, i, failAt) ==
  IF i > Len(names) THEN [db |-> d, err |-> FALSE, nexec |-> Len(names)]
  ELSE IF i = failAt THEN [db |-> d, err |-> TRUE, nexec |-> i]
  ELSE NamesLoop(ExecInsertName(d, query, names[i]), query, names, i + 1, failAt)

\* mutant of InsertNamesToDB: the loop wrapped in a transaction that is rolled
\* back on the first error
InsertNamesToDBInTx(d, query, names, failAt) ==
  LET r == NamesLoop(d, query, names, 1, failAt) IN
  IF r.err THEN [r EXCEPT !.db = d] ELSE r

\* failAt = 0: no statement fails; failAt = k: the statement of names[k] fails
InsertNamesToDB(d, query, names, failAt) == NamesLoop(d, query, names, 1, failAt)

\* SELECT COUNT(*) FROM <table>
GetTableCount(d, table) == Cardinality(d[table])

\* ------------------------------------------------------- the transaction
\* A transaction tx is [db: its working copy, n: the statements issued so far].
\* failAt = k makes the k-th statement of the transaction return an error.

\* mutant of GetOrInsert: INSERT ... RETURNING id without the ON CONFLICT clause
GetOrInsertAlways(tx, table, name, failAt) ==
  LET issued == [tx EXCEPT !.n = @ + 1]
      newId == NextId(tx.db[table])
  IN IF issued.n = failAt THEN [tx |-> issued, id |-> 0, err |-> TRUE]
     ELSE [tx |-> [issued EXCEPT !.db[table] = @ \cup {[id |-> newId, name |-> name]}],
           id |-> newId, err |-> FALSE]

\* INSERT INTO <table> (name) VALUES ($1)
\*   ON CONFLICT (name) DO UPDATE SET name=EXCLUDED.name RETURNING id
GetOrInsert(tx, table, name, failAt) ==
  LET issued == [tx EXCEPT !.n = @ + 1]
      hit == {r \in tx.db[table] : r.name = name}
      newId == NextId(tx.db[table])
  IN IF issued.n = failAt THEN [tx |-> issued, id |-> 0, err |-> TRUE]
     ELSE IF hit # {}
       THEN [tx |-> issued, id |-> (CHOOSE r \in hit : TRUE).id, err |-> FALSE]
       ELSE [tx |-> [issued EXCEPT !.db[table] = @ \cup {[id |-> newId, name |-> name]}],
             id |-> newId, err |-> FALSE]

GetOrInsertCategory(tx, name, failAt) == GetOrInsert(tx, "exercise_category", name, failAt)

GetOrInsertEquipment(tx, name, failAt) == GetOrInsert(tx, "equipment", name, failAt)

GetOrInsertType(tx, name, failAt) == GetOrInsert(tx, "training_type", name, failAt)

GetOrInsertMuscle(tx, name, failAt) == GetOrInsert(tx, "muscle_group", name, failAt)

\* mutant of UpsertExercise: ON CONFLICT (name) DO UPDATE that leaves the
\* description as it was
UpsertExerciseKeepDescription(tx, name, description, catID, failAt) ==
  LET issued == [tx EXCEPT !.n = @ + 1]
      hit == {r \in tx.db.exercise : r.name = name}
      newId == NextId(tx.db.exercise)
  IN IF issued.n = failAt THEN [tx |-> issued, id |-> 0, err |-> TRUE]
     ELSE IF hit # {}
       THEN [tx |-> issued, id |-> (CHOOSE r \in hit : TRUE).id, err |-> FALSE]
       ELSE [tx |-> [issued EXCEPT !.db.exercise =
                       @ \cup {[id |-> newId, name |-> name,
                                description |-> description, category_id |-> catID]}],
             id |-> newId, err |-> FALSE]

\* mutant of UpsertExercise: on conflict the category reference is overwritten
\* as well
UpsertExerciseReapplyCategory(tx, name, description, catID, failAt) ==
  LET issued == [tx EXCEPT !.n = @ + 1]
      hit == {r \in tx.db.exercise : r.name = name}
      newId == NextId(tx.db.exercise)
  IN IF issued.n = failAt THEN [tx |-> issued, id |-> 0, err |-> TRUE]
     ELSE IF hit # {}
       THEN [tx |-> [issued EXCEPT !.db.exercise =
                       {IF r.name = name
                        THEN [r EXCEPT !.description = description, !.category_id = catID]
                        ELSE r : r \in @}],
             id |-> (CHOOSE r \in hit : TRUE).id, err |-> FALSE]
       ELSE [tx |-> [issued EXCEPT !.db.exercise =
                       @ \cup {[id |-> newId, name |-> name,
                                description |-> description, category_id |-> catID]}],
             id |-> newId, err |-> FALSE]

\* INSERT INTO exercise (name, description, category_id) VALUES ($1, $2, $3)
\*   ON CONFLICT (name) DO UPDATE SET description=EXCLUDED.description RETURNING id
UpsertExercise(tx, name, description, catID, failAt) ==
  LET issued == [tx EXCEPT !.n = @ + 1]
      hit == {r \in tx.db.exercise : r.name = name}
      newId == NextId(tx.db.exercise)
  IN IF issued.n = failAt THEN [tx |-> issued, id |-> 0, err |-> TRUE]
     ELSE IF hit # {}
       THEN [tx |-> [issued EXCEPT !.db.exercise =
                       {IF r.name = name THEN [r EXCEPT !.description = description] ELSE r
                          : r \in @}],
             id |-> (CHOOSE r \in hit : TRUE).id, err |-> FALSE]
       ELSE [tx |-> [issued EXCEPT !.db.exercise =
                       @ \cup {[id |-> newId, name |-> name,
                                description |-> description, category_id |-> catID]}],
             id |-> newId, err |-> FALSE]

\* INSERT INTO <junction> (exercise_id, <entity>_id) VALUES ($1, $2) ON CONFLICT DO NOTHING
InsertJunction(tx, table, exID, entID, failAt) ==
  LET issued == [tx EXCEPT !.n = @ + 1]
      pair == <<exID, entID>>
  IN IF issued.n = failAt THEN [tx |-> issued, err |-> TRUE]
     ELSE IF BagIn(pair, tx.db[table]) THEN [tx |-> issued, err |-> FALSE]
     ELSE [tx |-> [issued EXCEPT !.db[table] = @ (+) SetToBag({pair})], err |-> FALSE]

\* The steps of the loops are chained operators: each takes the result of the
\* statement before it, returns on its error and goes on otherwise.
RECURSIVE EquipmentLoop(_, _, _, _, _)
\* j: the result of the junction insert of items[i]
AfterEquipmentJunction(j, exID, items, i, failAt) ==
  IF j.err THEN [tx |-> j.tx, err |-> "insert equipment junction"]
  ELSE EquipmentLoop(j.tx, exID, items, i + 1, failAt)

\* g: the result of GetOrInsertEquipment for items[i]
AfterGetEquipment(g, exID, items, i, failAt) ==
  IF g.err THEN [tx |-> g.tx, err |-> "equipment"]
  ELSE AfterEquipmentJunction(
         InsertJunction(g.tx, "exercise_equipment", exID, g.id, failAt),
         exID, items, i, failAt)

\* mutant of EquipmentLoop: blank and None items are not skipped
EquipmentLoopNoSkip(tx, exID, items, i, failAt) ==
  IF i > Len(items) THEN [tx |-> tx, err |-> "nil"]
  ELSE AfterGetEquipment(GetOrInsertEquipment(tx, TrimSpace(items[i]), failAt),
                         exID, items, i, failAt)

\* for _, e := range row.Equipment, from items[i] on
EquipmentLoop(tx, exID, items, i, failAt) ==
  IF i > Len(items) THEN [tx |-> tx, err |-> "nil"]
  ELSE IF TrimSpace(items[i]) = <<>> \/ EqualFold(TrimSpace(items[i]), sNone)
  THEN EquipmentLoop(tx, exID, items, i + 1, failAt)
  ELSE AfterGetEquipment(GetOrInsertEquipment(tx, TrimSpace(items[i]), failAt),
                         exID, items, i, failAt)

RECURSIVE TypesLoop(_, _, _, _, _)
AfterTypeJunction(j, exID, items, i, failAt) ==
  IF j.err THEN [tx |-> j.tx, err |-> "insert type junction"]
  ELSE TypesLoop(j.tx, exID, items, i + 1, failAt)

AfterGetType(g, exID, items, i, failAt) ==
  IF g.err THEN [tx |-> g.tx, err |-> "type"]
  ELSE AfterTypeJunction(
         InsertJunction(g.tx, "exercise_training_types", exID, g.id, failAt),
         exID, items, i, failAt)

\* for _, t := range row.Types, from items[i] on
TypesLoop(tx, exID, items, i, failAt) ==
  IF i > Len(items) THEN [tx |-> tx, err |-> "nil"]
  ELSE AfterGetType(GetOrInsertType(tx, items[i], failAt), exID, items, i, failAt)

RECURSIVE MusclesLoop(_, _, _, _, _)
AfterMuscleJunction(j, exID, items, i, failAt) ==
  IF j.err THEN [tx |-> j.tx, err |-> "insert muscle junction"]
  ELSE MusclesLoop(j.tx, exID, items, i + 1, failAt)

AfterGetMuscle(g, exID, items, i, failAt) ==
  IF g.err THEN [tx |-> g.tx, err |-> "muscle"]
  ELSE AfterMuscleJunction(
         InsertJunction(g.tx, "exercise_muscles", exID, g.id, failAt),
         exID, items, i, failAt)

\* for _, m := range row.Muscles, from items[i] on
MusclesLoop(tx, exID, items, i, failAt) ==
  IF i > Len(items) THEN [tx |-> tx, err |-> "nil"]
  ELSE AfterGetMuscle(GetOrInsertMuscle(tx, items[i], failAt), exID, items, i, failAt)

\* t: the result of the loop over row.Types
AfterTypes(t, exID, row, failAt) ==
  IF t.err # "nil" THEN t ELSE MusclesLoop(t.tx, exID, row.Muscles, 1, failAt)

\* e: the result of the loop over row.Equipment
AfterEquipment(e, exID, row, failAt) ==
  IF e.err # "nil" THEN e
  ELSE AfterTypes(TypesLoop(e.tx, exID, row.Types, 1, failAt), exID, row, failAt)

\* x: the result of the exercise upsert
AfterExercise(x, row, failAt) ==
  IF x.err THEN [tx |-> x.tx, err |-> "insert exercise"]
  ELSE AfterEquipment(EquipmentLoop(x.tx, x.id, row.Equipment, 1, failAt),
                      x.id, row, failAt)

\* c: the result of GetOrInsertCategory
AfterCategory(c, row, failAt) ==
  IF c.err THEN [tx |-> c.tx, err |-> "category"]
  ELSE AfterExercise(UpsertExercise(c.tx, row.Name, row.Description, c.id, failAt),
                     row, failAt)

\* mutant of InsertRow: the exercise row is written before its category is
\* resolved, with the zero value as category id
ExerciseFirstAfterCategory(c, exID, row, failAt) ==
  IF c.err THEN [tx |-> c.tx, err |-> "category"]
  ELSE AfterEquipment(EquipmentLoop(c.tx, exID, row.Equipment, 1, failAt),
                      exID, row, failAt)

ExerciseFirstAfterExercise(x, row, failAt) ==
  IF x.err THEN [tx |-> x.tx, err |-> "insert exercise"]
  ELSE ExerciseFirstAfterCategory(GetOrInsertCategory(x.tx, row.Category, failAt),
                                  x.id, row, failAt)

InsertRowExerciseFirst(tx, row, failAt) ==
  ExerciseFirstAfterExercise(UpsertExercise(tx, row.Name, row.Description, 0, failAt),
                             row, failAt)

\* the body of the loop over rows, for one row
InsertRow(tx, row, failAt) ==
  AfterCategory(GetOrInsertCategory(tx, row.Category, failAt), row, failAt)

\* rows i..Len(rows); done counts the rows whose body ran to its end
RECURSIVE RowsLoop(_, _, _, _)
AfterRow(r, rows, i, failAt) ==
  IF r.err # "nil" THEN [tx |-> r.tx, err |-> r.err, done |-> i - 1]
  ELSE RowsLoop(r.tx, rows, i + 1, failAt)

RowsLoop(tx, rows, i, failAt) ==
  IF i > Len(rows) THEN [tx |-> tx, err |-> "nil", done |-> Len(rows)]
  ELSE AfterRow(InsertRow(tx, rows[i], failAt), rows, i, failAt)

\* the err that the deferred closure of InsertExercises reads: the variable
\* declared by `tx, err := db.Begin()`.  Every later err (catID, err := ...;
\* equipID, err := ...) is a new variable of the loop's scope, and the function
\* has no named result, so this one is still nil when the closure runs.
DeferredErr(loopErr) == "nil"

\* the statements a run of the batch without failure issues
NumStatements(d, rows) == RowsLoop([db |-> d, n |-> 0], rows, 1, 0).tx.n

\* out: [beginFails, failAt, aborts, commitFails].
\*   aborts: the failed statement leaves the store's transaction in the failed
\*           state, in which the store turns a COMMIT into a rollback;
\*   commitFails: tx.Commit() fails and nothing is committed.
\* The deferred closure: Rollback when the err it reads is not nil, else Commit
\* (whose error is dropped).  r is the result of the loop over the rows.
EndTx(d, r, out) ==
  IF DeferredErr(r.err) # "nil"
  THEN [db |-> d, err |-> r.err, ended |-> "Rollback", done |-> r.done, applied |-> FALSE]
  ELSE IF (r.err # "nil" /\ out.aborts) \/ out.commitFails
  THEN [db |-> d, err |-> r.err, ended |-> "Commit", done |-> r.done, applied |-> FALSE]
  ELSE [db |-> r.tx.db, err |-> r.err, ended |-> "Commit", done |-> r.done,
        applied |-> TRUE]

InsertExercises(d, rows, out) ==
  IF out.beginFails
  THEN [db |-> d, err |-> "begin", ended |-> "none", done |-> 0, applied |-> FALSE]
  ELSE EndTx(d, RowsLoop([db |-> d, n |-> 0], rows, 1, out.failAt), out)

\* what can happen to a call of InsertExercises with this batch
Outcomes(d, rows) ==
  {[beginFails |-> TRUE, failAt |-> 0, aborts |-> FALSE, commitFails |-> FALSE]}
  \cup {[beginFails |-> FALSE, failAt |-> 0, aborts |-> FALSE, commitFails |-> c]
          : c \in BOOLEAN}
  \cup {[beginFails |-> FALSE, failAt |-> k, aborts |-> a, commitFails |-> FALSE]
          : k \in 1..NumStatements(d, rows), a \in BOOLEAN}

\* ------------------------------------------------------------------- state
VARIABLES
  state,         \* model.state: "stateMenu", "stateFileSelector", "stateResult"
  menuChoice,    \* model.menuChoice, 0-based
  fileList,      \* model.fileList
  fileChoice,    \* model.fileChoice, 0-based
  selectedFile,  \* model.selectedFile, without the fixed directory prefix
  resultMsg,     \* model.resultMsg: [text: the format string, n: its %d, err: its %v]
  isError,       \* model.isError
  counts,        \* model.counts
  quit,          \* tea.Quit was returned: the program has ended
  db,            \* the committed contents of the store
  last,          \* the last call into the repository layer, and how it went
  ncalls,        \* the calls into the repository layer so far
  parsed,        \* the last call of a parser on its own, its input and its result
  fetched        \* the last step called refreshCounts

menuVars == <<state, menuChoice, fileList, fileChoice, selectedFile, resultMsg,
              isError, counts, quit>>

vars == <<state, menuChoice, fileList, fileChoice, selectedFile, resultMsg,
          isError, counts, quit, db, last, ncalls, parsed, fetched>>

menuOptions ==
  <<"Upload Muscle Groups", "Upload Exercise Types", "Upload Exercise Categories",
    "Upload Equipment", "Upload Exercises", "Quit">>

\* mutant of refreshCounts: the first two tables are read in the other order
refreshCountsExchanged(d) ==
  <<GetTableCount(d, "training_type"), GetTableCount(d, "muscle_group"),
    GetTableCount(d, "exercise_category"), GetTableCount(d, "equipment"),
    GetTableCount(d, "exercise")>>

\* model.refreshCounts
refreshCounts(d) ==
  <<GetTableCount(d, "muscle_group"), GetTableCount(d, "training_type"),
    GetTableCount(d, "exercise_category"), GetTableCount(d, "equipment"),
    GetTableCount(d, "exercise")>>

\* the same exercises with the same equipment, type and muscle lists
SameLists(rows1, rows2) ==
  /\ Len(rows1) = Len(rows2)
  /\ \A i \in 1..Len(rows1) :
       /\ rows1[i].Name = rows2[i].Name
       /\ rows1[i].Equipment = rows2[i].Equipment
       /\ rows1[i].Types = rows2[i].Types
       /\ rows1[i].Muscles = rows2[i].Muscles

\* last.rerun: the call repeats the call before it, which succeeded
NoCall ==
  [op |-> "none", query |-> "", names |-> <<>>, rows |-> <<>>, failAt |-> 0,
   err |-> "nil", nexec |-> 0, ended |-> "none", done |-> 0, applied |-> FALSE,
   rerun |-> FALSE]

NamesCall(prev, query, names, failAt, r) ==
  [op |-> "InsertNamesToDB", query |-> query, names |-> names, rows |-> <<>>,
   failAt |-> failAt, err |-> IF r.err THEN "exec" ELSE "nil", nexec |-> r.nexec,
   ended |-> "none", done |-> 0, applied |-> FALSE,
   rerun |-> /\ prev.op = "InsertNamesToDB"
             /\ prev.err = "nil"
             /\ prev.query = query
             /\ prev.names = names]

ExercisesCall(prev, rows, out, r) ==
  [op |-> "InsertExercises", query |-> "", names |-> <<>>, rows |-> rows,
   failAt |-> out.failAt, err |-> r.err, nexec |-> 0, ended |-> r.ended,
   done |-> r.done, applied |-> r.applied,
   rerun |-> /\ prev.op = "InsertExercises"
             /\ prev.err = "nil"
             /\ prev.applied
             /\ SameLists(prev.rows, rows)]

\* no parser was called on its own
NoParse == [fn |-> "none", s |-> <<>>, records |-> <<>>, out |-> <<>>, err |-> "nil"]

\* the empty string, as a result message
NoMsg == [text |-> "", n |-> 0, err |-> ""]

\* initialModel, on a store that is empty when the program starts
Init ==
  /\ state = "stateMenu"
  /\ menuChoice = 0
  /\ fileList = <<>>
  /\ fileChoice = 0
  /\ selectedFile = <<>>
  /\ resultMsg = NoMsg
  /\ isError = FALSE
  /\ db = EmptyDB
  /\ counts = refreshCounts(EmptyDB)
  /\ quit = FALSE
  /\ last = NoCall
  /\ ncalls = 0
  /\ parsed = NoParse
  /\ fetched = TRUE

\* ------------------------------------------- the repository layer, called
SeqsUpTo(S, n) == UNION {[1..k -> S] : k \in 0..n}

Queries ==
  {InsertMuscleGroupQuery, InsertTrainingTypeQuery, InsertCategoryQuery,
   InsertEquipmentQuery}

NameUniverse == {sA, sNone}

rowA ==
  [Name |-> sX, Description |-> sD1, Category |-> sA,
   Equipment |-> <<sNone, sA>>, Types |-> <<sNone>>, Muscles |-> <<>>]

\* rowA uploaded again with another description and another category
rowB ==
  [Name |-> sX, Description |-> sD2, Category |-> sNone,
   Equipment |-> <<sNone, sA>>, Types |-> <<sNone>>, Muscles |-> <<>>]

rowC ==
  [Name |-> sY, Description |-> sD1, Category |-> sA,
   Equipment |-> <<sBlank, sNoneLower>>, Types |-> <<>>, Muscles |-> <<sA>>]

ExerciseRows == {rowA, rowB, rowC}

CallInsertNamesToDB ==
  /\ ncalls < MaxCalls
  /\ \E query \in Queries, names \in SeqsUpTo(NameUniverse, MaxNames) :
       \E failAt \in 0..Len(names) :
         LET r == InsertNamesToDB(db, query, names, failAt) IN
         /\ db' = r.db
         /\ last' = NamesCall(last, query, names, failAt, r)
  /\ ncalls' = ncalls + 1
  /\ UNCHANGED <<menuVars, parsed, fetched>>

CallInsertExercises ==
  /\ ncalls < MaxCalls
  /\ \E rows \in SeqsUpTo(ExerciseRows, MaxRows) :
       \E out \in Outcomes(db, rows) :
         LET r == InsertExercises(db, rows, out) IN
         /\ db' = r.db
         /\ last' = ExercisesCall(last, rows, out, r)
  /\ ncalls' = ncalls + 1
  /\ UNCHANGED <<menuVars, parsed, fetched>>

NextDB == CallInsertNamesToDB \/ CallInsertExercises

SpecDB == Init /\ [][NextDB]_vars

\* -------------------------------------------------------------- the files
sName == <<"n", "a", "m", "e">>
sNameCap == <<"N", "a", "m", "e">>
sBack == <<"B", "a", "c", "k">>
extCsv == <<".", "c", "s", "v">>
extJson == <<".", "j", "s", "o", "n">>
extYaml == <<".", "y", "a", "m", "l">>
extYml == <<".", "y", "m", "l">>

\* the characters of the file names, in byte order
CharOrder ==
  <<".", "B", "L", "M", "T", "Y", "a", "c", "d", "h", "j", "k", "l", "m", "n", "o", "r",
    "s", "t", "v", "x", "y">>

Code(c) == CHOOSE i \in 1..Len(CharOrder) : CharOrder[i] = c

\* s < t, as Go compares strings
RECURSIVE Less(_, _)
Less(s, t) ==
  IF t = <<>> THEN FALSE
  ELSE IF s = <<>> THEN TRUE
  ELSE IF Head(s) = Head(t) THEN Less(Tail(s), Tail(t))
  ELSE Code(Head(s)) < Code(Head(t))

\* sort.Strings, of a set of distinct strings
RECURSIVE SortStrings(_)
SortStrings(S) ==
  IF S = {} THEN <<>>
  ELSE LET m == CHOOSE x \in S : \A y \in S \ {x} : Less(x, y)
       IN <<m>> \o SortStrings(S \ {m})

\* filepath.Ext: the suffix from the last dot, "" when there is no dot
Ext(name) ==
  LET dots == {i \in 1..Len(name) : name[i] = "."}
  IN IF dots = {} THEN <<>> ELSE SubSeq(name, Max(dots), Len(name))

\* A directory entry: its name, whether it is a directory, what csv.ReadAll
\* returns for its bytes (csvOk and the records, or an error) and what
\* json.Unmarshal or yaml.Unmarshal into []map[string]any returns (objsOk and
\* the objects, or an error).
\* An object is [has: it has a key "name", str: the value is a string, name].
csvNames == <<<<sName>>, <<sA>>, <<sNone>>, <<sA>>>>

\* the header row of an exercise file
csvHeader == <<sNameCap, <<"D">>, <<"C">>, <<"E">>, <<"T">>, <<"M">>>>

csvExercises ==
  <<csvHeader,
    <<sX, sD1, sA, <<"N", "o", "n", "e", ";", "a">>, sNone, <<>>>>,
    <<sY, <<" ", "d", "1">>, sA, <<" ", ";", "n", "o", "n", "e">>, <<>>,
      <<"\"", "a", "\"">>>>>>

objsJson ==
  <<[has |-> TRUE, str |-> TRUE, name |-> sA],
    [has |-> FALSE, str |-> FALSE, name |-> <<>>],
    [has |-> TRUE, str |-> FALSE, name |-> <<>>]>>

objsYaml == <<[has |-> TRUE, str |-> TRUE, name |-> sNone]>>

DataDir ==
  {[name |-> <<"m", ".", "c", "s", "v">>, isDir |-> FALSE,
    csvOk |-> TRUE, csv |-> csvNames, objsOk |-> FALSE, objs |-> <<>>],
   [name |-> <<"x", ".", "c", "s", "v">>, isDir |-> FALSE,
    csvOk |-> TRUE, csv |-> csvExercises, objsOk |-> FALSE, objs |-> <<>>],
   [name |-> <<"h", ".", "c", "s", "v">>, isDir |-> FALSE,
    csvOk |-> TRUE, csv |-> <<csvHeader>>, objsOk |-> FALSE, objs |-> <<>>],
   [name |-> <<"n", ".", "j", "s", "o", "n">>, isDir |-> FALSE,
    csvOk |-> FALSE, csv |-> <<>>, objsOk |-> TRUE, objs |-> objsJson],
   [name |-> <<"T", ".", "Y", "M", "L">>, isDir |-> FALSE,
    csvOk |-> TRUE, csv |-> <<<<<<"-", " ", "n", "a", "m", "e">>>>>>,
    objsOk |-> TRUE, objs |-> objsYaml],
   [name |-> <<"r", ".", "t", "x", "t">>, isDir |-> FALSE,
    csvOk |-> TRUE, csv |-> <<<<sA>>>>, objsOk |-> FALSE, objs |-> <<>>],
   [name |-> sBack, isDir |-> FALSE,
    csvOk |-> TRUE, csv |-> <<<<sA>>>>, objsOk |-> FALSE, objs |-> <<>>],
   [name |-> <<"d", ".", "c", "s", "v">>, isDir |-> TRUE,
    csvOk |-> FALSE, csv |-> <<>>, objsOk |-> FALSE, objs |-> <<>>]}

FileNamed(name) == CHOOSE f \in DataDir : f.name = name

\* mutant of listDataFiles: the entries are not filtered by extension
listDataFilesUnfiltered == SortStrings({f.name : f \in {g \in DataDir : ~g.isDir}})

\* listDataFiles, when os.ReadDir succeeds
listDataFiles ==
  SortStrings({f.name : f \in {g \in DataDir :
     ~g.isDir /\ ToLower(Ext(g.name)) \in {extCsv, extJson, extYaml, extYml}}})

\* ------------------------------------------------------------- the parsers
RECURSIVE CSVNames(_, _)
CSVNames(records, i) ==
  IF i > Len(records) THEN <<>>
  ELSE LET rec == records[i] IN
    IF Len(rec) = 0 THEN CSVNames(records, i + 1)
    ELSE IF i = 1 /\ (rec[1] = sName \/ rec[1] = sNameCap) THEN CSVNames(records, i + 1)
    ELSE <<rec[1]>> \o CSVNames(records, i + 1)

\* ioFails: os.Open (os.ReadFile) returns an error
ParseCSV(file, ioFails) ==
  IF ioFails THEN [names |-> <<>>, err |-> "open"]
  ELSE IF ~file.csvOk THEN [names |-> <<>>, err |-> "csv"]
  ELSE [names |-> CSVNames(file.csv, 1), err |-> "nil"]

RECURSIVE ObjectNames(_, _)
ObjectNames(arr, i) ==
  IF i > Len(arr) THEN <<>>
  ELSE IF arr[i].has /\ arr[i].str THEN <<arr[i].name>> \o ObjectNames(arr, i + 1)
  ELSE ObjectNames(arr, i + 1)

ParseJSON(file, ioFails) ==
  IF ioFails THEN [names |-> <<>>, err |-> "read"]
  ELSE IF ~file.objsOk THEN [names |-> <<>>, err |-> "json"]
  ELSE [names |-> ObjectNames(file.objs, 1), err |-> "nil"]

ParseYAML(file, ioFails) ==
  IF ioFails THEN [names |-> <<>>, err |-> "read"]
  ELSE IF ~file.objsOk THEN [names |-> <<>>, err |-> "yaml"]
  ELSE [names |-> ObjectNames(file.objs, 1), err |-> "nil"]

\* strings.Split(s, sep) for a one-character sep
RECURSIVE Split(_, _)
Split(s, sep) ==
  LET hits == {i \in 1..Len(s) : s[i] = sep} IN
  IF hits = {} THEN <<s>>
  ELSE LET i == CHOOSE h \in hits : \A g \in hits : h <= g
       IN <<SubSeq(s, 1, i - 1)>> \o Split(SubSeq(s, i + 1, Len(s)), sep)

\* strings.Trim(p, `"`)
TrimQuotes(p) == TrimRight(TrimLeft(p, {"\""}), {"\""})

RECURSIVE KeepTrimmed(_, _)
KeepTrimmed(parts, i) ==
  IF i > Len(parts) THEN <<>>
  ELSE LET p == TrimSpace(TrimQuotes(parts[i])) IN
    IF p # <<>> THEN <<p>> \o KeepTrimmed(parts, i + 1) ELSE KeepTrimmed(parts, i + 1)

SplitAndTrim(s, sep) == KeepTrimmed(Split(s, sep), 1)

RECURSIVE ExerciseRowsOf(_, _)
ExerciseRowsOf(records, i) ==
  IF i > Len(records) THEN <<>>
  ELSE LET rec == records[i] IN
    IF i = 1 THEN ExerciseRowsOf(records, i + 1)
    ELSE IF Len(rec) < 6 THEN ExerciseRowsOf(records, i + 1)
    ELSE <<[Name |-> TrimSpace(rec[1]), Description |-> TrimSpace(rec[2]),
            Category |-> TrimSpace(rec[3]), Equipment |-> SplitAndTrim(rec[4], ";"),
            Types |-> SplitAndTrim(rec[5], ";"), Muscles |-> SplitAndTrim(rec[6], ";")]>>
         \o ExerciseRowsOf(records, i + 1)

ParseExercisesCSV(file, ioFails) ==
  IF ioFails THEN [rows |-> <<>>, err |-> "open"]
  ELSE IF ~file.csvOk THEN [rows |-> <<>>, err |-> "csv"]
  ELSE IF Len(file.csv) < 1 THEN [rows |-> <<>>, err |-> "no records found"]
  ELSE [rows |-> ExerciseRowsOf(file.csv, 1), err |-> "nil"]

\* ------------------------------------------------- the parsers, called
sNameUpper == <<"N", "A", "M", "E">>

\* the list columns: every string of at most MaxLen of these characters, and
\* the column A; B ;;C
ListColumns ==
  SeqsUpTo({"a", " ", "\"", ";"}, MaxLen)
    \cup {<<"A", ";", " ", "B", " ", ";", ";", "C">>}

\* the records csv.ReadAll can return for a name-list file
NameRecords == {<<sName>>, <<sNameCap>>, <<sNameUpper>>, <<sA>>, <<sNone, sA>>}

CallSplitAndTrim ==
  /\ \E s \in ListColumns :
       parsed' = [fn |-> "SplitAndTrim", s |-> s, records |-> <<>>,
                  out |-> SplitAndTrim(s, ";"), err |-> "nil"]
  /\ UNCHANGED <<menuVars, db, last, ncalls, fetched>>

CallParseCSV ==
  /\ \E records \in SeqsUpTo(NameRecords, MaxRecords), csvOk, ioFails \in BOOLEAN :
       LET r == ParseCSV([csvOk |-> csvOk, csv |-> records], ioFails) IN
       parsed' = [fn |-> "ParseCSV", s |-> <<>>, records |-> records,
                  out |-> r.names, err |-> r.err]
  /\ UNCHANGED <<menuVars, db, last, ncalls, fetched>>

NextParse == CallSplitAndTrim \/ CallParseCSV

SpecParse == Init /\ [][NextParse]_vars

\* ---------------------------------------------------------------- the menu
\* tea.KeyMsg by its String(); "WindowSizeMsg" stands for every message that is
\* no key, "x" for every key no handler names
Msgs == {"up", "k", "down", "j", "enter", "q", "ctrl+c", "esc", "r", "x", "WindowSizeMsg"}

ReadDirError == [text |-> "Error reading ./src/internal/data/: %v", n |-> 0, err |-> "readdir"]

ParseError(err) == [text |-> "Error parsing file: %v", n |-> 0, err |-> err]

ExercisesParseError(err) == [text |-> "Error parsing exercises CSV: %v", n |-> 0, err |-> err]

DatabaseError(err) == [text |-> "Database error: %v", n |-> 0, err |-> err]

UploadedExercises(n) == [text |-> "Successfully uploaded %d exercises!", n |-> n, err |-> ""]

UploadedEntries(n) == [text |-> "Successfully uploaded %d entries!", n |-> n, err |-> ""]

\* mutant of ShowResult: the error flag is left unset, as before it existed
ShowResultWithoutFlag(msg, isErr) ==
  /\ state' = "stateResult"
  /\ resultMsg' = msg
  /\ isError' = FALSE

\* m.state = stateResult with a message, the rest of the model as it is
ShowResult(msg, isErr) ==
  /\ state' = "stateResult"
  /\ resultMsg' = msg
  /\ isError' = isErr
\* mutant of QueryOf: the statements of the first two operations are exchanged
QueryOfExchanged(choice) ==
  CASE choice = 0 -> InsertTrainingTypeQuery
    [] choice = 1 -> InsertMuscleGroupQuery
    [] choice = 2 -> InsertCategoryQuery
    [] choice = 3 -> InsertEquipmentQuery
    [] OTHER -> ""

\* the query of the operation chosen in the menu; case 4 and the Quit option
\* leave the variable at its zero value
QueryOf(choice) ==
  CASE choice = 0 -> InsertMuscleGroupQuery
    [] choice = 1 -> InsertTrainingTypeQuery
    [] choice = 2 -> InsertCategoryQuery
    [] choice = 3 -> InsertEquipmentQuery
    [] OTHER -> ""

\* mutant of ParseByExt: the extension is compared as it is written
ParseByExtCaseSensitive(name, ioFails) ==
  LET ext == Ext(name) IN
  CASE ext = extCsv -> ParseCSV(FileNamed(name), ioFails)
    [] ext = extJson -> ParseJSON(FileNamed(name), ioFails)
    [] ext \in {extYaml, extYml} -> ParseYAML(FileNamed(name), ioFails)
    [] OTHER -> [names |-> <<>>, err |-> "unsupported file type"]

\* the parser chosen by the lower-cased extension of the selected file
ParseByExt(name, ioFails) ==
  LET ext == ToLower(Ext(name)) IN
  CASE ext = extCsv -> ParseCSV(FileNamed(name), ioFails)
    [] ext = extJson -> ParseJSON(FileNamed(name), ioFails)
    [] ext \in {extYaml, extYml} -> ParseYAML(FileNamed(name), ioFails)
    [] OTHER -> [names |-> <<>>, err |-> "unsupported file type"]

\* mutant of moveUp: the highlight wraps from the first entry to the last
moveUpWrapping(i, n) == IF i > 0 THEN i - 1 ELSE n - 1

\* "up", "k": if m.menuChoice > 0 { m.menuChoice-- }, and the same for fileChoice
moveUp(i, n) == IF i > 0 THEN i - 1 ELSE i

\* "down", "j": if m.menuChoice < len(menuOptions)-1 { m.menuChoice++ }, and the
\* same for fileChoice and len(m.fileList)
moveDown(i, n) == IF i < n - 1 THEN i + 1 ELSE i

updateMenu(msg) ==
  \/ /\ msg \in {"up", "k"}
     /\ menuChoice' = moveUp(menuChoice, Len(menuOptions))
     /\ UNCHANGED <<state, fileList, fileChoice, selectedFile, resultMsg, isError,
                    counts, quit, db, last, ncalls>>
     /\ fetched' = FALSE
  \/ /\ msg \in {"down", "j"}
     /\ menuChoice' = moveDown(menuChoice, Len(menuOptions))
     /\ UNCHANGED <<state, fileList, fileChoice, selectedFile, resultMsg, isError,
                    counts, quit, db, last, ncalls>>
     /\ fetched' = FALSE
  \/ /\ msg = "enter"
     /\ menuChoice = Len(menuOptions) - 1
     /\ quit' = TRUE
     /\ UNCHANGED <<state, menuChoice, fileList, fileChoice, selectedFile, resultMsg,
                    isError, counts, db, last, ncalls>>
     /\ fetched' = FALSE
  \/ /\ msg = "enter"
     /\ menuChoice # Len(menuOptions) - 1
     /\ \E readDirFails \in BOOLEAN :
          IF readDirFails
          THEN /\ ShowResult(ReadDirError, TRUE)
               /\ UNCHANGED <<fileList, fileChoice>>
          ELSE /\ state' = "stateFileSelector"
               /\ fileList' = Append(listDataFiles, sBack)
               /\ fileChoice' = 0
               /\ UNCHANGED <<resultMsg, isError>>
     /\ UNCHANGED <<menuChoice, selectedFile, counts, quit, db, last, ncalls>>
     /\ fetched' = FALSE
  \/ /\ msg \in {"q", "ctrl+c"}
     /\ quit' = TRUE
     /\ UNCHANGED <<state, menuChoice, fileList, fileChoice, selectedFile, resultMsg,
                    isError, counts, db, last, ncalls>>
     /\ fetched' = FALSE
  \/ /\ msg = "r"
     /\ counts' = refreshCounts(db)
     /\ UNCHANGED <<state, menuChoice, fileList, fileChoice, selectedFile, resultMsg,
                    isError, quit, db, last, ncalls>>
     /\ fetched' = TRUE
  \/ /\ msg \in {"esc", "x", "WindowSizeMsg"}
     /\ UNCHANGED <<menuVars, db, last, ncalls, parsed>>
     /\ fetched' = FALSE

\* enter on a file of the list: parse it and upload it, all in this one step
UploadSelected ==
  LET name == fileList[fileChoice + 1] IN
  /\ selectedFile' = name
  /\ \E ioFails \in BOOLEAN :
       LET p == ParseByExt(name, ioFails) IN
       IF p.err # "nil"
       THEN /\ ShowResult(ParseError(p.err), TRUE)
            /\ UNCHANGED <<db, last, ncalls>>
       ELSE IF menuChoice = 4
       THEN \E ioFails2 \in BOOLEAN :
              LET x == ParseExercisesCSV(FileNamed(name), ioFails2) IN
              IF x.err # "nil"
              THEN /\ ShowResult(ExercisesParseError(x.err), TRUE)
                   /\ UNCHANGED <<db, last, ncalls>>
              ELSE \E out \in Outcomes(db, x.rows) :
                     LET r == InsertExercises(db, x.rows, out) IN
                     /\ db' = r.db
                     /\ last' = ExercisesCall(last, x.rows, out, r)
                     /\ ncalls' = ncalls + 1
                     /\ IF r.err # "nil"
                        THEN ShowResult(DatabaseError(r.err), TRUE)
                        ELSE ShowResult(UploadedExercises(Len(x.rows)), FALSE)
       ELSE \E failAt \in 0..Len(p.names) :
              LET r == InsertNamesToDB(db, QueryOf(menuChoice), p.names, failAt) IN
              /\ db' = r.db
              /\ last' = NamesCall(last, QueryOf(menuChoice), p.names, failAt, r)
              /\ ncalls' = ncalls + 1
              /\ IF r.err
                 THEN ShowResult(DatabaseError("exec"), TRUE)
                 ELSE ShowResult(UploadedEntries(Len(p.names)), FALSE)
\* mutant of updateFileMenu: leaving the file list by Back or a back key puts
\* the highlight of the menu back on its first option
updateFileMenuBackResets(msg) ==
  \/ /\ msg \in {"up", "k"}
     /\ fileChoice' = moveUp(fileChoice, Len(fileList))
     /\ UNCHANGED <<state, menuChoice, fileList, selectedFile, resultMsg, isError,
                    counts, quit, db, last, ncalls>>
     /\ fetched' = FALSE
  \/ /\ msg \in {"down", "j"}
     /\ fileChoice' = moveDown(fileChoice, Len(fileList))
     /\ UNCHANGED <<state, menuChoice, fileList, selectedFile, resultMsg, isError,
                    counts, quit, db, last, ncalls>>
     /\ fetched' = FALSE
  \/ /\ msg \in {"q", "esc"}
     /\ state' = "stateMenu"
     /\ menuChoice' = 0
     /\ UNCHANGED <<fileList, fileChoice, selectedFile, resultMsg, isError,
                    counts, quit, db, last, ncalls>>
     /\ fetched' = FALSE
  \/ /\ msg = "enter"
     /\ fileList[fileChoice + 1] = sBack
     /\ state' = "stateMenu"
     /\ menuChoice' = 0
     /\ UNCHANGED <<fileList, fileChoice, selectedFile, resultMsg, isError,
                    counts, quit, db, last, ncalls>>
     /\ fetched' = FALSE
  \/ /\ msg = "enter"
     /\ fileList[fileChoice + 1] # sBack
     /\ ncalls < MaxUploads
     /\ UploadSelected
     /\ UNCHANGED <<menuChoice, fileList, fileChoice, counts, quit>>
     /\ fetched' = FALSE
  \/ /\ msg \in {"ctrl+c", "r", "x", "WindowSizeMsg"}
     /\ UNCHANGED <<menuVars, db, last, ncalls, parsed>>
     /\ fetched' = FALSE

updateFileMenu(msg) ==
  \/ /\ msg \in {"up", "k"}
     /\ fileChoice' = moveUp(fileChoice, Len(fileList))
     /\ UNCHANGED <<state, menuChoice, fileList, selectedFile, resultMsg, isError,
                    counts, quit, db, last, ncalls>>
     /\ fetched' = FALSE
  \/ /\ msg \in {"down", "j"}
     /\ fileChoice' = moveDown(fileChoice, Len(fileList))
     /\ UNCHANGED <<state, menuChoice, fileList, selectedFile, resultMsg, isError,
                    counts, quit, db, last, ncalls>>
     /\ fetched' = FALSE
  \/ /\ msg \in {"q", "esc"}
     /\ state' = "stateMenu"
     /\ UNCHANGED <<menuChoice, fileList, fileChoice, selectedFile, resultMsg, isError,
                    counts, quit, db, last, ncalls>>
     /\ fetched' = FALSE
  \/ /\ msg = "enter"
     /\ fileList[fileChoice + 1] = sBack
     /\ state' = "stateMenu"
     /\ UNCHANGED <<menuChoice, fileList, fileChoice, selectedFile, resultMsg, isError,
                    counts, quit, db, last, ncalls>>
     /\ fetched' = FALSE
  \/ /\ msg = "enter"
     /\ fileList[fileChoice + 1] # sBack
     /\ ncalls < MaxUploads
     /\ UploadSelected
     /\ UNCHANGED <<menuChoice, fileList, fileChoice, counts, quit>>
     /\ fetched' = FALSE
  \/ /\ msg \in {"ctrl+c", "r", "x", "WindowSizeMsg"}
     /\ UNCHANGED <<menuVars, db, last, ncalls, parsed>>
     /\ fetched' = FALSE

\* mutant of updateResult: acknowledging a result reopens the file list
updateResultToFileSelector(msg) ==
  \/ /\ msg \in {"enter", "q", "esc"}
     /\ state' = "stateFileSelector"
     /\ resultMsg' = NoMsg
     /\ isError' = FALSE
     /\ counts' = refreshCounts(db)
     /\ UNCHANGED <<menuChoice, fileList, fileChoice, selectedFile, quit, db, last,
                    ncalls>>
     /\ fetched' = TRUE
  \/ /\ msg \notin {"enter", "q", "esc"}
     /\ UNCHANGED <<menuVars, db, last, ncalls, parsed>>
     /\ fetched' = FALSE

\* mutant of updateResult: the counts are not fetched again
updateResultStaleCounts(msg) ==
  \/ /\ msg \in {"enter", "q", "esc"}
     /\ state' = "stateMenu"
     /\ resultMsg' = NoMsg
     /\ isError' = FALSE
     /\ UNCHANGED <<menuChoice, fileList, fileChoice, selectedFile, counts, quit, db,
                    last, ncalls>>
     /\ fetched' = FALSE
  \/ /\ msg \notin {"enter", "q", "esc"}
     /\ UNCHANGED <<menuVars, db, last, ncalls, parsed>>
     /\ fetched' = FALSE

\* case stateResult of model.Update
updateResult(msg) ==
  \/ /\ msg \in {"enter", "q", "esc"}
     /\ state' = "stateMenu"
     /\ resultMsg' = NoMsg
     /\ isError' = FALSE
     /\ counts' = refreshCounts(db)
     /\ UNCHANGED <<menuChoice, fileList, fileChoice, selectedFile, quit, db, last,
                    ncalls>>
     /\ fetched' = TRUE
  \/ /\ msg \notin {"enter", "q", "esc"}
     /\ UNCHANGED <<menuVars, db, last, ncalls, parsed>>
     /\ fetched' = FALSE

\* model.Update: one message, dispatched on m.state
UpdateMenu ==
  /\ ~quit /\ state = "stateMenu"
  /\ \E msg \in Msgs : updateMenu(msg)
  /\ UNCHANGED parsed

UpdateFileMenu ==
  /\ ~quit /\ state = "stateFileSelector"
  /\ \E msg \in Msgs : updateFileMenu(msg)
  /\ UNCHANGED parsed

UpdateResult ==
  /\ ~quit /\ state = "stateResult"
  /\ \E msg \in Msgs : updateResult(msg)
  /\ UNCHANGED parsed

Next == UpdateMenu \/ UpdateFileMenu \/ UpdateResult

Spec == Init /\ [][Next]_vars

\* ================================================================== claims
NamesOf(rows) == {r.name : r \in rows}

Range(s) == {s[i] : i \in 1..Len(s)}

FirstIndex(s, x) == CHOOSE i \in 1..Len(s) : s[i] = x /\ \A j \in 1..(i - 1) : s[j] # x

LastIndex(s, x) == CHOOSE i \in 1..Len(s) : s[i] = x /\ \A j \in (i + 1)..Len(s) : s[j] # x

\* this step is a call of the repository operation op
IsCall(op) == ncalls' = ncalls + 1 /\ last'.op = op

NamedTables == DimTables \cup {"exercise"}

UniqueNames(d) ==
  \A t \in NamedTables : \A r1, r2 \in d[t] : r1.name = r2.name => r1 = r2

UniqueIds(d) ==
  \A t \in NamedTables : \A r1, r2 \in d[t] : r1.id = r2.id => r1 = r2

NoDuplicatePair(d) ==
  \A j \in JunctionTables : \A p \in BagToSet(d[j]) : CopiesIn(p, d[j]) = 1

\* the id of the row called name in a table of d (0 when there is none)
IdOf(d, t, name) ==
  IF \E r \in d[t] : r.name = name THEN (CHOOSE r \in d[t] : r.name = name).id ELSE 0

\* C1 (as claimed): whenever InsertExercises returns an error, the committed
\* store after the call is identical to the committed store before it.
C1_ErrorLeavesStoreUnchanged ==
  [][(IsCall("InsertExercises") /\ last'.err # "nil") => db' = db]_vars

\* C2 (as claimed): InsertExercises ends its transaction with Commit only when
\* every step of every row succeeded, and with Rollback (never Commit) on every
\* path that returns an error of a statement.
C2_RollbackOnEveryError ==
  last.op = "InsertExercises" =>
    /\ last.ended = "Commit" => last.err = "nil"
    /\ last.err \notin {"nil", "begin"} => last.ended = "Rollback"

\* C3: InsertNamesToDB issues one statement per name in input order; when the
\* statement of the k-th name fails the call returns the error, exactly k
\* statements were issued (none for names k+1..n), the rows of names 1..k-1
\* are committed, in input order, and nothing else in the store changed.
C3_NamesPrefixCommitted ==
  [][IsCall("InsertNamesToDB") =>
       LET c == last'
           q == c.query
           ok == c.failAt = 0
           kept == IF ok THEN Len(c.names) ELSE c.failAt - 1
           fresh == db'[q] \ db[q]
       IN /\ (c.err = "nil") <=> ok
          /\ c.nexec = IF ok THEN Len(c.names) ELSE c.failAt
          /\ db[q] \subseteq db'[q]
          /\ NamesOf(db'[q]) = NamesOf(db[q]) \cup {c.names[i] : i \in 1..kept}
          /\ \A r1, r2 \in fresh :
               r1.id < r2.id => FirstIndex(c.names, r1.name) < FirstIndex(c.names, r2.name)
          /\ \A r \in fresh : \A o \in db[q] : o.id < r.id
          /\ \A t \in DOMAIN db : t # q => db'[t] = db[t]]_vars

\* C3 witness: a three-name call whose second statement failed: the first name
\* is a new committed row and the third name, absent before, is still absent.
C3_Witness ==
  /\ last.op = "InsertNamesToDB"
  /\ last.err # "nil"
  /\ last.failAt = 2
  /\ Len(last.names) = 3
  /\ last.names[1] # last.names[3]
  /\ NamesOf(db[last.query]) = {last.names[1]}

\* C4: a successful name-list upload that repeats the successful upload before
\* it (same statement, same list) leaves the store as it was: same rows, same
\* ids, same count; and after any successful upload each name of the list,
\* repeated or not, is the name of exactly one row.
C4_NameUploadIdempotent ==
  [][(IsCall("InsertNamesToDB") /\ last'.err = "nil") =>
       /\ last'.rerun =>
            /\ db' = db
            /\ GetTableCount(db', last'.query) = GetTableCount(db, last'.query)
       /\ \A n \in Range(last'.names) :
            Cardinality({r \in db'[last'.query] : r.name = n}) = 1
       /\ GetTableCount(db', last'.query)
            = Cardinality(NamesOf(db[last'.query]) \cup Range(last'.names))]_vars

\* C4 witness: the second of two identical successful uploads of a list that
\* repeats a name (a, None, a): two rows.
C4_Witness ==
  /\ last.op = "InsertNamesToDB"
  /\ last.err = "nil"
  /\ last.rerun
  /\ last.names = <<sA, sNone, sA>>
  /\ GetTableCount(db, last.query) = 2

\* C5: in a committed, successful InsertExercises every exercise name of the
\* batch is the name of exactly one row, an exercise that existed keeps its
\* id, the stored description is the one of the (last) row with that name; and
\* a re-run with the same equipment, type and muscle lists leaves the three
\* junction tables unchanged.  No junction table ever holds a pair twice.
C5_ExerciseUpsert ==
  [][(IsCall("InsertExercises") /\ last'.err = "nil" /\ last'.applied) =>
       LET rows == last'.rows
           names == [i \in 1..Len(rows) |-> rows[i].Name]
       IN /\ \A i \in 1..Len(rows) :
               LET hit == {r \in db'.exercise : r.name = rows[i].Name} IN
               /\ Cardinality(hit) = 1
               /\ \A r \in hit :
                    /\ r.description = rows[LastIndex(names, rows[i].Name)].Description
                    /\ \A o \in db.exercise : o.name = r.name => o.id = r.id
          /\ last'.rerun => \A j \in JunctionTables : db'[j] = db[j]
          /\ NoDuplicatePair(db')]_vars

\* C5 witness: x re-uploaded with a changed description and the same lists.
C5_Witness ==
  /\ last.op = "InsertExercises"
  /\ last.err = "nil"
  /\ last.applied
  /\ last.rerun
  /\ last.rows = <<rowB>>
  /\ \E r \in db.exercise : r.name = sX /\ r.description = sD2
  /\ db.exercise_equipment # EmptyBag

RefIntegrity(d) ==
  /\ \A e \in d.exercise : \E c \in d.exercise_category : c.id = e.category_id
  /\ \A p \in BagToSet(d.exercise_equipment) :
       (\E e \in d.exercise : e.id = p[1]) /\ (\E q \in d.equipment : q.id = p[2])
  /\ \A p \in BagToSet(d.exercise_training_types) :
       (\E e \in d.exercise : e.id = p[1]) /\ (\E q \in d.training_type : q.id = p[2])
  /\ \A p \in BagToSet(d.exercise_muscles) :
       (\E e \in d.exercise : e.id = p[1]) /\ (\E q \in d.muscle_group : q.id = p[2])

\* C6: in every committed store every exercise row's category id is the id of
\* a category row and both ids of every junction row are ids of an exercise
\* row and of a row of its entity table.  A call that failed midway and was
\* committed shows the store after a prefix of the statements, so this also
\* checks that the referenced row is written before the referencing one.
C6_ReferentialIntegrity == RefIntegrity(db)

\* C6 witness: a batch that failed at its last statement and was committed up
\* to there: exercise and junction rows of the interrupted batch are present.
C6_Witness ==
  /\ last.op = "InsertExercises"
  /\ last.err = "insert muscle junction"
  /\ db.exercise # {}
  /\ db.muscle_group # {}
  /\ db.exercise_muscles = EmptyBag
  /\ db.exercise_equipment # EmptyBag

\* C7: no dimension table and not the exercise table holds two rows with one
\* name or one id; a row never changes its id or name; and GetOrInsert of any
\* name, on any reachable store, returns the id of the one row with that name,
\* creating it only when the name is new.
C7_UniqueNamesStableIds ==
  [][/\ UniqueNames(db') /\ UniqueIds(db')
     /\ \A t \in NamedTables : \A r \in db[t] :
          \E r2 \in db'[t] : r2.id = r.id /\ r2.name = r.name
     /\ \A t \in DimTables : \A name \in NameUniverse :
          LET g == GetOrInsert([db |-> db', n |-> 0], t, name, 0) IN
          /\ g.err = FALSE
          /\ {r \in g.tx.db[t] : r.name = name} = {[id |-> g.id, name |-> name]}
          /\ (name \in NamesOf(db'[t]) => g.tx.db = db' /\ g.id = IdOf(db', t, name))
          /\ db'[t] \subseteq g.tx.db[t]
     /\ (IsCall("InsertExercises") /\ last'.err = "nil" /\ last'.applied) =>
          \A i \in 1..Len(last'.rows) :
            LET row == last'.rows[i]
                ex == IdOf(db', "exercise", row.Name)
            IN /\ \A k \in 1..Len(row.Types) :
                    BagIn(<<ex, IdOf(db', "training_type", row.Types[k])>>,
                          db'.exercise_training_types)
               /\ \A k \in 1..Len(row.Muscles) :
                    BagIn(<<ex, IdOf(db', "muscle_group", row.Muscles[k])>>,
                          db'.exercise_muscles)
               /\ \A k \in 1..Len(row.Equipment) :
                    LET e == TrimSpace(row.Equipment[k]) IN
                    (e # <<>> /\ ~EqualFold(e, sNone)) =>
                      BagIn(<<ex, IdOf(db', "equipment", e)>>, db'.exercise_equipment)
               /\ IdOf(db, "exercise", row.Name) = 0
                    => \E r \in db'.exercise :
                         /\ r.name = row.Name
                         /\ r.category_id = IdOf(db', "exercise_category",
                              last'.rows[FirstIndex([m \in 1..Len(last'.rows) |->
                                last'.rows[m].Name], row.Name)].Category)]_vars

\* C7 witness: equipment a (id 1) and None (id 2) were created by a name-list
\* upload (InsertExercises never writes an equipment None), and the exercise
\* batch that followed linked its exercise to the existing id 1.
C7_Witness ==
  /\ last.op = "InsertExercises"
  /\ last.err = "nil"
  /\ last.applied
  /\ ncalls = 2
  /\ db.equipment = {[id |-> 1, name |-> sA], [id |-> 2, name |-> sNone]}
  /\ \E p \in BagToSet(db.exercise_equipment) : p[2] = 1

\* this step is model.Update handling msg
Handles(msg) ==
  /\ ~quit
  /\ \/ state = "stateMenu" /\ updateMenu(msg)
     \/ state = "stateFileSelector" /\ updateFileMenu(msg)
     \/ state = "stateResult" /\ updateResult(msg)

\* C8: in Menu and in FileSelector, "up"/"k" at index 0 and "down"/"j" at the
\* last index leave the index as it is, at every other index they move it by
\* exactly one, and the index never wraps around.
C8_NavigationClamped ==
  [][\A msg \in Msgs : Handles(msg) =>
       /\ (state = "stateMenu" /\ msg \in {"up", "k"}) =>
            menuChoice' = IF menuChoice = 0 THEN 0 ELSE menuChoice - 1
       /\ (state = "stateMenu" /\ msg \in {"down", "j"}) =>
            menuChoice' = IF menuChoice = 5 THEN 5 ELSE menuChoice + 1
       /\ (state = "stateFileSelector" /\ msg \in {"up", "k"}) =>
            fileChoice' = IF fileChoice = 0 THEN 0 ELSE fileChoice - 1
       /\ (state = "stateFileSelector" /\ msg \in {"down", "j"}) =>
            fileChoice' = IF fileChoice = Len(fileList) - 1 THEN fileChoice
                          ELSE fileChoice + 1
       /\ msg \in {"up", "k", "down", "j"} =>
            /\ menuChoice' - menuChoice \in {-1, 0, 1}
            /\ fileChoice' - fileChoice \in {-1, 0, 1}
            /\ state' = state]_vars

\* C8 witness: the highlight was moved down to the last entry of both lists.
C8_Witness ==
  /\ state = "stateFileSelector"
  /\ menuChoice = 4
  /\ fileChoice = Len(fileList) - 1
  /\ Len(fileList) > 2

\* C9: the machine starts in Menu and its state changes only by
\* Menu->FileSelector and Menu->Result (enter on an option that is not Quit; the
\* second with the directory error), FileSelector->Menu (enter on Back, "q",
\* esc), FileSelector->Result (enter on a file) and Result->Menu.
C9_OnlyTheseTransitions ==
  /\ state = "stateMenu"
  /\ [][\A msg \in Msgs : (Handles(msg) /\ state' # state) =>
          \/ /\ state = "stateMenu" /\ state' = "stateFileSelector"
             /\ msg = "enter" /\ menuChoice # 5
          \/ /\ state = "stateMenu" /\ state' = "stateResult"
             /\ msg = "enter" /\ menuChoice # 5
             /\ resultMsg' = ReadDirError /\ isError' /\ db' = db
          \/ /\ state = "stateFileSelector" /\ state' = "stateMenu"
             /\ \/ msg = "enter" /\ fileList[fileChoice + 1] = sBack
                \/ msg \in {"q", "esc"}
          \/ /\ state = "stateFileSelector" /\ state' = "stateResult"
             /\ msg = "enter" /\ fileList[fileChoice + 1] # sBack
          \/ /\ state = "stateResult" /\ state' = "stateMenu"]_vars

\* C9 witness: back in Menu after an upload, that is after
\* Menu->FileSelector->Result->Menu.
C9_Witness ==
  /\ state = "stateMenu"
  /\ ncalls = 1
  /\ selectedFile # <<>>
  /\ resultMsg = NoMsg

\* C10: in Result a step that changes anything is the handling of enter, "q" or
\* esc, each of the three makes it, and it goes to Menu with the message
\* emptied, the error flag cleared, the five counts equal to the row counts of
\* the store and the rest of the model as it was; any other input changes
\* nothing.
C10_ResultAcknowledged ==
  [][(state = "stateResult" /\ ~quit) =>
       /\ \A msg \in Msgs : updateResult(msg) => msg \in {"enter", "q", "esc"}
       /\ \A msg \in {"enter", "q", "esc"} : updateResult(msg)
       /\ state' = "stateMenu"
       /\ resultMsg' = NoMsg
       /\ isError' = FALSE
       /\ counts' = <<Cardinality(db.muscle_group), Cardinality(db.training_type),
                      Cardinality(db.exercise_category), Cardinality(db.equipment),
                      Cardinality(db.exercise)>>
       /\ UNCHANGED <<menuChoice, fileList, fileChoice, selectedFile, quit, db, last,
                      ncalls>>]_vars

\* C10 witness: an error result (a name list that failed at its second
\* statement) was acknowledged: Menu shows the one row that was committed.
C10_Witness ==
  /\ state = "stateMenu"
  /\ last.op = "InsertNamesToDB"
  /\ last.err # "nil"
  /\ last.failAt = 2
  /\ resultMsg = NoMsg
  /\ ~isError
  /\ \E i \in 1..5 : counts[i] = 1

\* C11: the store is written only by the handling of enter in FileSelector
\* with a file (not Back) highlighted; every other message in every state
\* leaves the store as it is, and a step from FileSelector to Menu leaves the
\* store and menuChoice as they are.
C11_StoreWrittenOnlyByUpload ==
  [][\A msg \in Msgs : Handles(msg) =>
       /\ db' # db =>
            /\ state = "stateFileSelector"
            /\ msg = "enter"
            /\ fileList[fileChoice + 1] # sBack
       /\ (state = "stateFileSelector" /\ state' = "stateMenu") =>
            /\ db' = db
            /\ menuChoice' = menuChoice
            /\ last' = last]_vars

\* C11 witness: an upload chosen from the fourth option has written the store
\* and its result is on display.
C11_Witness ==
  /\ state = "stateResult"
  /\ menuChoice = 3
  /\ db # EmptyDB
  /\ db.equipment # {}
  /\ ~isError

\* the table of the name-list operation at an index of the menu
TableOfChoice ==
  <<"muscle_group", "training_type", "exercise_category", "equipment">>

\* C12: an upload made with menuChoice 0, 1, 2, 3 is a call of InsertNamesToDB
\* with the names parsed from the selected file and writes only the
\* muscle-group, training-type, exercise-category, equipment table
\* respectively; an upload made with menuChoice 4 is a call of InsertExercises
\* with the rows the exercise CSV parser returns for the selected file; no
\* step makes both calls.
C12_DispatchByMenuChoice ==
  [][(ncalls' # ncalls) =>
       LET name == fileList[fileChoice + 1] IN
       /\ ncalls' = ncalls + 1
       /\ state = "stateFileSelector"
       /\ menuChoice \in 0..4
       /\ menuChoice \in 0..3 =>
            /\ last'.op = "InsertNamesToDB"
            /\ last'.rows = <<>>
            /\ last'.query = TableOfChoice[menuChoice + 1]
            /\ last'.names = ParseByExt(name, FALSE).names
            /\ \A t \in DOMAIN db : t # TableOfChoice[menuChoice + 1] => db'[t] = db[t]
       /\ menuChoice = 4 =>
            /\ last'.op = "InsertExercises"
            /\ last'.names = <<>>
            /\ last'.query = ""
            /\ last'.rows = ParseExercisesCSV(FileNamed(name), FALSE).rows]_vars

\* C12 witness: the exercises operation uploaded the two rows of the exercise
\* file, while the name tables hold only what those rows refer to.
C12_Witness ==
  /\ state = "stateResult"
  /\ menuChoice = 4
  /\ last.op = "InsertExercises"
  /\ Len(last.rows) = 2
  /\ last.applied
  /\ Cardinality(db.exercise) = 2

\* C13 (as claimed): the exercise parser never returns zero rows without an
\* error, so InsertExercises is never called with an empty batch, and a
\* success message of the exercises operation never reports zero exercises.
C13_EmptyExerciseFileIsError ==
  /\ ~(last.op = "InsertExercises" /\ last.rows = <<>>)
  /\ (state = "stateResult" /\ resultMsg.text = "Successfully uploaded %d exercises!")
       => resultMsg.n > 0

\* the first cells of records i.., in order
RECURSIVE FirstCells(_, _)
FirstCells(records, i) ==
  IF i > Len(records) THEN <<>> ELSE <<records[i][1]>> \o FirstCells(records, i + 1)

\* C14 (as claimed): ParseCSV leaves out the first record exactly when its
\* first cell equals "name" whatever the case of its letters (name, Name,
\* NAME), and returns the first cell of every other record, in source order.
C14_HeaderCaseInsensitive ==
  (parsed.fn = "ParseCSV" /\ parsed.err = "nil") =>
    parsed.out =
      IF parsed.records # <<>> /\ EqualFold(parsed.records[1][1], sName)
      THEN FirstCells(parsed.records, 2)
      ELSE FirstCells(parsed.records, 1)

\* whitespace and the double quote
Surrounding == {" ", "\t", "\n", "\r", "\""}

\* the segments i.. with all surrounding whitespace and quotes removed, without
\* those that are empty then
RECURSIVE Stripped(_, _)
Stripped(parts, i) ==
  IF i > Len(parts) THEN <<>>
  ELSE LET p == TrimRight(TrimLeft(parts[i], Surrounding), Surrounding) IN
    IF p = <<>> THEN Stripped(parts, i + 1) ELSE <<p>> \o Stripped(parts, i + 1)

\* C15 (as claimed): every item SplitAndTrim returns is non-empty and neither
\* starts nor ends with whitespace or a double quote, and the items are the
\* semicolon-separated segments, stripped, in order, the empty ones left out.
C15_ItemsFullyTrimmed ==
  parsed.fn = "SplitAndTrim" =>
    /\ \A k \in 1..Len(parsed.out) :
         /\ parsed.out[k] # <<>>
         /\ parsed.out[k][1] \notin Surrounding
         /\ parsed.out[k][Len(parsed.out[k])] \notin Surrounding
    /\ parsed.out = Stripped(Split(parsed.s, ";"), 1)

\* C16 (as claimed): after a committed, successful InsertExercises the stored
\* category reference of every exercise of the batch, also of one that existed
\* before with another category, is the id of the category that the (last) row
\* with its name names.
C16_CategoryReapplied ==
  [][(IsCall("InsertExercises") /\ last'.err = "nil" /\ last'.applied) =>
       LET rows == last'.rows
           names == [i \in 1..Len(rows) |-> rows[i].Name]
       IN \A i \in 1..Len(rows) : \A r \in db'.exercise :
            r.name = rows[i].Name =>
              r.category_id = IdOf(db', "exercise_category",
                                   rows[LastIndex(names, rows[i].Name)].Category)]_vars

\* an equipment item that is not skipped: not blank and not "none" in any case
IsEquipment(e) == TrimSpace(e) # <<>> /\ ToLower(TrimSpace(e)) # sNoneLower

\* the statements a batch issues when none fails: per row the category, the
\* exercise, and two for every type, every muscle and every equipment item
\* that is not skipped
RECURSIVE ExpectedStatements(_, _)
ExpectedStatements(rows, i) ==
  IF i > Len(rows) THEN 0
  ELSE 2 + 2 * Cardinality({k \in 1..Len(rows[i].Equipment) : IsEquipment(rows[i].Equipment[k])})
         + 2 * Len(rows[i].Types) + 2 * Len(rows[i].Muscles)
         + ExpectedStatements(rows, i + 1)

\* C17: a call of InsertExercises issues no statement for an equipment item
\* that is blank or none in any case, and two for every other one; when it
\* succeeds and is committed, the new equipment rows are exactly those of the
\* other items and the new junction rows exactly their pairs with the
\* exercise of their row.
C17_EquipmentSkipsBlankAndNone ==
  [][IsCall("InsertExercises") =>
       LET rows == last'.rows
           items == UNION {{<<i, k>> : k \in 1..Len(rows[i].Equipment)}
                             : i \in 1..Len(rows)}
           kept == {p \in items : IsEquipment(rows[p[1]].Equipment[p[2]])}
       IN /\ NumStatements(db, rows) = ExpectedStatements(rows, 1)
          /\ (last'.err = "nil" /\ last'.applied) =>
               /\ NamesOf(db'.equipment)
                    = NamesOf(db.equipment)
                        \cup {TrimSpace(rows[p[1]].Equipment[p[2]]) : p \in kept}
               /\ BagToSet(db'.exercise_equipment)
                    = BagToSet(db.exercise_equipment)
                        \cup {<<IdOf(db', "exercise", rows[p[1]].Name),
                                IdOf(db', "equipment", TrimSpace(rows[p[1]].Equipment[p[2]]))>>
                                : p \in kept}]_vars

\* C17 witness: the batch of rowC (equipment " " and none) and rowA (equipment
\* None and a) was committed: one equipment row, a, and one junction row.
C17_Witness ==
  /\ last.op = "InsertExercises"
  /\ last.rows = <<rowC, rowA>>
  /\ last.err = "nil"
  /\ last.applied
  /\ ncalls = 1
  /\ NamesOf(db.equipment) = {sA}
  /\ BagCardinality(db.exercise_equipment) = 1

\* C18 (as claimed): a committed, successful InsertExercises creates no
\* training-type and no muscle-group row for an item that is blank or none in
\* any case and writes no junction row for it; the new rows of the two tables
\* and of their junction tables are exactly those of the other items.
C18_TypesAndMusclesSkipLikeEquipment ==
  [][(IsCall("InsertExercises") /\ last'.err = "nil" /\ last'.applied) =>
       LET rows == last'.rows
           types == UNION {{<<i, k>> : k \in 1..Len(rows[i].Types)} : i \in 1..Len(rows)}
           muscles == UNION {{<<i, k>> : k \in 1..Len(rows[i].Muscles)} : i \in 1..Len(rows)}
           keptT == {p \in types : IsEquipment(rows[p[1]].Types[p[2]])}
           keptM == {p \in muscles : IsEquipment(rows[p[1]].Muscles[p[2]])}
       IN /\ NamesOf(db'.training_type)
               = NamesOf(db.training_type)
                   \cup {TrimSpace(rows[p[1]].Types[p[2]]) : p \in keptT}
          /\ NamesOf(db'.muscle_group)
               = NamesOf(db.muscle_group)
                   \cup {TrimSpace(rows[p[1]].Muscles[p[2]]) : p \in keptM}
          /\ BagToSet(db'.exercise_training_types)
               = BagToSet(db.exercise_training_types)
                   \cup {<<IdOf(db', "exercise", rows[p[1]].Name),
                           IdOf(db', "training_type", TrimSpace(rows[p[1]].Types[p[2]]))>>
                           : p \in keptT}
          /\ BagToSet(db'.exercise_muscles)
               = BagToSet(db.exercise_muscles)
                   \cup {<<IdOf(db', "exercise", rows[p[1]].Name),
                           IdOf(db', "muscle_group", TrimSpace(rows[p[1]].Muscles[p[2]]))>>
                           : p \in keptM}]_vars

\* C19: no step deletes a committed row: every row of a dimension table is
\* still there, unchanged, every exercise row is still there with its id, name
\* and category reference (the description may differ), and every junction
\* table holds what it held before, so the junction rows of each exercise
\* after a step are a superset of those before it.
C19_StoreOnlyGrows ==
  [][/\ \A t \in DimTables : db[t] \subseteq db'[t]
     /\ \A r \in db.exercise : \E r2 \in db'.exercise :
          /\ r2.id = r.id
          /\ r2.name = r.name
          /\ r2.category_id = r.category_id
     /\ \A j \in JunctionTables :
          /\ db[j] \sqsubseteq db'[j]
          /\ \A e \in db.exercise :
               {p \in BagToSet(db[j]) : p[1] = e.id}
                 \subseteq {p \in BagToSet(db'[j]) : p[1] = e.id}]_vars

\* C19 witness: exercise x was uploaded again with another description and
\* another category: its description changed, its id and category reference
\* did not, its junction rows are there, and both categories exist.
C19_Witness ==
  /\ last.op = "InsertExercises"
  /\ last.rows = <<rowB>>
  /\ last.err = "nil"
  /\ last.applied
  /\ ncalls = 2
  /\ db.exercise = {[id |-> 1, name |-> sX, description |-> sD2, category_id |-> 1]}
  /\ db.exercise_category = {[id |-> 1, name |-> sA], [id |-> 2, name |-> sNone]}
  /\ BagToSet(db.exercise_equipment) = {<<1, 1>>}

\* C20 (as claimed): the counts are fetched when the program starts, by every
\* step that enters Menu from FileSelector or from Result and by the key "r" in
\* Menu, and by no other step; a step that fetches them leaves counts equal to
\* the row counts of the store.
C20_CountsFetchedOnMenuEntry ==
  /\ fetched = TRUE
  /\ [][\A msg \in Msgs : Handles(msg) =>
          /\ fetched' <=> \/ state # "stateMenu" /\ state' = "stateMenu"
                          \/ state = "stateMenu" /\ msg = "r"
          /\ fetched' => counts' = refreshCounts(db')]_vars

\* C21: a step into Result that made a repository call which returned nil
\* shows the success message of its operation with the number of names,
\* respectively rows, handed to the call, and the error flag false; every other
\* step into Result shows an error text and the error flag true.
C21_ResultMessageCounts ==
  [][(state # "stateResult" /\ state' = "stateResult") =>
       IF ncalls' = ncalls + 1 /\ last'.err = "nil"
       THEN /\ isError' = FALSE
            /\ resultMsg'.err = ""
            /\ last'.op = "InsertNamesToDB" =>
                 /\ resultMsg'.text = "Successfully uploaded %d entries!"
                 /\ resultMsg'.n = Len(last'.names)
            /\ last'.op = "InsertExercises" =>
                 /\ resultMsg'.text = "Successfully uploaded %d exercises!"
                 /\ resultMsg'.n = Len(last'.rows)
       ELSE /\ isError' = TRUE
            /\ resultMsg'.err # ""
            /\ resultMsg'.text \in
                 {"Error reading ./src/internal/data/: %v", "Error parsing file: %v",
                  "Error parsing exercises CSV: %v", "Database error: %v"}
            /\ ncalls' = ncalls + 1 => resultMsg'.text = "Database error: %v"]_vars

\* C21 witness: the name list a, None, a of m.csv was uploaded: the message
\* reports 3 entries while the table holds 2 rows.
C21_Witness ==
  /\ state = "stateResult"
  /\ ~isError
  /\ resultMsg.text = "Successfully uploaded %d entries!"
  /\ resultMsg.n = 3
  /\ last.names = <<sA, sNone, sA>>
  /\ GetTableCount(db, last.query) = 2

\* C22 (as claimed): when Result shows the success message of the exercises
\* operation the transaction of the call was committed and every row of the
\* batch has its exercise row in the store; a call whose Commit failed does not
\* end in the success message.
C22_SuccessMeansCommitted ==
  (state = "stateResult" /\ resultMsg.text = "Successfully uploaded %d exercises!") =>
    /\ last.op = "InsertExercises"
    /\ last.applied
    /\ \A i \in 1..Len(last.rows) : \E r \in db.exercise : r.name = last.rows[i].Name

\* C23: whenever the state is Menu the five counts are the numbers of rows the
\* store holds in the muscle-group, training-type, category, equipment and
\* exercise table, in this order (count reads succeed and nothing else writes
\* the store).
C23_MenuCountsAreLive ==
  state = "stateMenu" =>
    /\ Len(counts) = 5
    /\ counts[1] = Cardinality(db.muscle_group)
    /\ counts[2] = Cardinality(db.training_type)
    /\ counts[3] = Cardinality(db.exercise_category)
    /\ counts[4] = Cardinality(db.equipment)
    /\ counts[5] = Cardinality(db.exercise)

\* C23 witness: Menu after the upload of a, None, a to the muscle groups failed
\* at its third statement: the two rows written before are counted.
C23_Witness ==
  /\ state = "stateMenu"
  /\ last.op = "InsertNamesToDB"
  /\ last.query = "muscle_group"
  /\ last.err # "nil"
  /\ last.failAt = 3
  /\ NamesOf(db.muscle_group) = {sA, sNone}
  /\ counts = <<2, 0, 0, 0, 0>>

\* what C24 says of a state
FileListWellFormed ==
  /\ menuChoice \in 0..5
  /\ state = "stateFileSelector" =>
       /\ fileList # <<>>
       /\ fileList[Len(fileList)] = sBack
       /\ \A i \in 1..(Len(fileList) - 1) : fileList[i] # sBack
       /\ fileChoice \in 0..(Len(fileList) - 1)

\* C24: menuChoice is always one of 0..5; in FileSelector the file list is not
\* empty, its last entry and no other is Back, and fileChoice is an index of
\* it; every step into FileSelector sets fileChoice to 0.
C24_FileListInvariant ==
  /\ []FileListWellFormed
  /\ [][(state # "stateFileSelector" /\ state' = "stateFileSelector")
          => fileChoice' = 0]_vars

\* C24 witness: the highlight is on Back, the sixth entry, of a list made from
\* a directory that holds a file called Back.
C24_Witness ==
  /\ state = "stateFileSelector"
  /\ Len(fileList) = 6
  /\ fileChoice = 5
  /\ fileList[fileChoice + 1] = sBack
  /\ \E f \in DataDir : f.name = sBack /\ ~f.isDir

\* the errors and the names that the parser of a listed file can return,
\* by the extension of the file in lower case
ParserErrors(name) ==
  CASE ToLower(Ext(name)) = extCsv -> {"open", "csv"}
    [] ToLower(Ext(name)) = extJson -> {"read", "json"}
    [] ToLower(Ext(name)) \in {extYaml, extYml} -> {"read", "yaml"}
    [] OTHER -> {}

ParserNames(name) ==
  CASE ToLower(Ext(name)) = extCsv -> CSVNames(FileNamed(name).csv, 1)
    [] ToLower(Ext(name)) = extJson -> ObjectNames(FileNamed(name).objs, 1)
    [] ToLower(Ext(name)) \in {extYaml, extYml} -> ObjectNames(FileNamed(name).objs, 1)
    [] OTHER -> <<>>

\* C25: no result ever carries the unsupported-file-type error; every entry of
\* the file list but Back has, in lower case, the extension .csv, .json, .yaml
\* or .yml; and a step from FileSelector into Result shows either an error of
\* the parser of that extension or went on with the names of that parser.
C25_UnsupportedTypeUnreachable ==
  /\ [](/\ resultMsg.err # "unsupported file type"
        /\ state = "stateFileSelector" =>
             \A i \in 1..(Len(fileList) - 1) :
               ToLower(Ext(fileList[i])) \in {extCsv, extJson, extYaml, extYml})
  /\ [][(state = "stateFileSelector" /\ state' = "stateResult") =>
          LET name == fileList[fileChoice + 1] IN
          /\ selectedFile' = name
          /\ resultMsg'.text = "Error parsing file: %v" => resultMsg'.err \in ParserErrors(name)
          /\ (ncalls' # ncalls /\ menuChoice \in 0..3) => last'.names = ParserNames(name)]_vars

\* C25 witness: T.YML, whose extension is in capitals, was parsed by the YAML
\* parser and its one name uploaded.
C25_Witness ==
  /\ state = "stateResult"
  /\ selectedFile = <<"T", ".", "Y", "M", "L">>
  /\ ~isError
  /\ last.op = "InsertNamesToDB"
  /\ last.names = <<sNone>>

====
